---- MODULE Spec2Model ----
(***************************************************************************)
(* Lookup and refresh engine of iptoasn: Database::parse, AsnStore::lookup, *)
(* the IpToAsnDb facade (load / lookup / stats / start_updater), the        *)
(* DatabaseFetcher cache protocol and the IpToAsn scheduler controls.       *)
(***************************************************************************)
EXTENDS Integers, Sequences, FiniteSets, TLC

(***************************************************************************)
(* Option<T>: None is the empty tuple, Some(x) the one-element tuple.       *)
(***************************************************************************)
None == <<>>
Some(x) == <<x>>
IsSome(o) == Len(o) = 1
Unwrap(o) == o[1]

(***************************************************************************)
(* std::net::IpAddr.  A value is <<family, bits>>; the derived Ord puts     *)
(* every V4 below every V6 and compares the bits inside one family.         *)
(* str::parse::<IpAddr> and Display are tabulated over the texts in use:    *)
(* parsing accepts non-canonical IPv6 spellings, Display prints canonically.*)
(***************************************************************************)
V4(bits) == <<4, bits>>
V6(bits) == <<6, bits>>
Family(ip) == ip[1]
Bits(ip) == ip[2]

IpTexts == {"1.0.0.0", "1.0.0.5", "1.0.0.255", "9.9.9.9", "::1", "0::1"}

ParseIpAddr(s) ==
  CASE s = "1.0.0.0"   -> Some(V4(16777216))
    [] s = "1.0.0.5"   -> Some(V4(16777221))
    [] s = "1.0.0.255" -> Some(V4(16777471))
    [] s = "9.9.9.9"   -> Some(V4(151587081))
    [] s = "::1"       -> Some(V6(1))
    [] s = "0::1"      -> Some(V6(1))
    [] OTHER           -> None

IpToString(ip) ==
  CASE ip = V4(16777216)  -> "1.0.0.0"
    [] ip = V4(16777221)  -> "1.0.0.5"
    [] ip = V4(16777471)  -> "1.0.0.255"
    [] ip = V4(151587081) -> "9.9.9.9"
    [] ip = V6(1)         -> "::1"

IpLt(a, b) == \/ Family(a) < Family(b)
              \/ Family(a) = Family(b) /\ Bits(a) < Bits(b)
IpLe(a, b) == a = b \/ IpLt(a, b)
IpGt(a, b) == IpLt(b, a)

(***************************************************************************)
(* str::parse::<u32>: decimal digits with an optional leading '+', value    *)
(* below 2^32; anything else is an error.                                   *)
(***************************************************************************)
ParseU32(s) ==
  CASE s = "1"     -> Some(1)
    [] s = "2"     -> Some(2)
    [] s = "+2"    -> Some(2)
    [] s = "15169" -> Some(15169)
    [] OTHER       -> None

(***************************************************************************)
(* Snapshot bytes.  gzip says whether the buffer decompresses to UTF-8      *)
(* text; lines is the decompressed text as data.lines() yields it, each     *)
(* line already split on '\t' (a line always has at least one field).       *)
(***************************************************************************)
Bytes(gzip, lines) == [gzip |-> gzip, lines |-> lines]

IsBlankField(f) == f \in {"", " "}
\* line.trim().is_empty(): tabs and spaces are all whitespace
LineIsBlank(parts) == \A i \in 1..Len(parts) : IsBlankField(parts[i])

\* a missing field read as the last field present
GetOrLast(parts, i) == IF i <= Len(parts) THEN parts[i] ELSE parts[Len(parts)]

\* parts.get(i).unwrap_or(&"")
GetOrEmpty(parts, i) == IF i <= Len(parts) THEN parts[i] ELSE ""

(***************************************************************************)
(* Interning pool: HashMap<String, Arc<str>>.  The pool is the sequence of  *)
(* distinct keys in insertion order; an Arc<str> is <<pool, slot, bytes>>,  *)
(* the slot being the identity of the allocation.                           *)
(***************************************************************************)
PoolSlot(pool, s) == CHOOSE i \in 1..Len(pool) : pool[i] = s
PoolHas(pool, s) == \E i \in 1..Len(pool) : pool[i] = s
PoolEntry(pool, s) == IF PoolHas(pool, s) THEN pool ELSE Append(pool, s)
\* a new allocation for every field read, whatever the pool holds
InternFresh(name, pool, s) == <<name, Len(pool) + 1, s>>

Intern(name, pool, s) == <<name, PoolSlot(PoolEntry(pool, s), s), s>>
ArcStr(a) == a[3]

AsnRecord(first_ip, last_ip, number, country, description) ==
  [first_ip |-> first_ip, last_ip |-> last_ip, number |-> number,
   country |-> country, description |-> description]

\* the insertion that puts a record before the records equal to it
RECURSIVE InsertBeforeEqual(_, _)
InsertBeforeEqual(sorted, r) ==
  IF sorted = <<>> THEN <<r>>
  ELSE IF IpLe(r.first_ip, sorted[Len(sorted)].first_ip)
       THEN Append(InsertBeforeEqual(SubSeq(sorted, 1, Len(sorted) - 1), r),
                   sorted[Len(sorted)])
       ELSE Append(sorted, r)

\* records.sort_by(|a, b| a.first_ip.cmp(&b.first_ip)): a stable sort
RECURSIVE InsertByFirstIp(_, _)
InsertByFirstIp(sorted, r) ==
  IF sorted = <<>> THEN <<r>>
  ELSE IF IpLt(r.first_ip, sorted[Len(sorted)].first_ip)
       THEN Append(InsertByFirstIp(SubSeq(sorted, 1, Len(sorted) - 1), r),
                   sorted[Len(sorted)])
       ELSE Append(sorted, r)

RECURSIVE SortByFirstIp(_)
SortByFirstIp(records) ==
  IF records = <<>> THEN <<>>
  ELSE InsertByFirstIp(SortByFirstIp(SubSeq(records, 1, Len(records) - 1)),
                       records[Len(records)])

\* one iteration of the `for line in data.lines()` loop
ParseLine(acc, parts) ==
  LET counted == [acc EXCEPT !.line_count = @ + 1]
      failed  == [counted EXCEPT !.error_count = @ + 1]
  IN IF LineIsBlank(parts) THEN counted
     ELSE IF Len(parts) < 3 THEN failed
     ELSE IF ~IsSome(ParseIpAddr(parts[1])) THEN failed
     ELSE IF ~IsSome(ParseIpAddr(parts[2])) THEN failed
     ELSE IF ~IsSome(ParseU32(parts[3])) THEN failed
     ELSE LET country_str == GetOrEmpty(parts, 4)
              description_str == GetOrEmpty(parts, 5)
          IN [counted EXCEPT
                !.country_pool = PoolEntry(@, country_str),
                !.description_pool = PoolEntry(@, description_str),
                !.records = Append(@,
                   AsnRecord(Unwrap(ParseIpAddr(parts[1])),
                             Unwrap(ParseIpAddr(parts[2])),
                             Unwrap(ParseU32(parts[3])),
                             Intern("country", acc.country_pool, country_str),
                             Intern("description", acc.description_pool,
                                    description_str)))]

RECURSIVE ParseLines(_)
ParseLines(lines) ==
  IF lines = <<>>
  THEN [records |-> <<>>, country_pool |-> <<>>, description_pool |-> <<>>,
        line_count |-> 0, error_count |-> 0]
  ELSE ParseLine(ParseLines(SubSeq(lines, 1, Len(lines) - 1)),
                 lines[Len(lines)])

\* Database::parse: Err(DatabaseParse) or Ok(Database { records })
DatabaseParse(gzipped_data) ==
  IF ~gzipped_data.gzip
  THEN [ok |-> FALSE, err |-> "DatabaseParse", records |-> <<>>]
  ELSE [ok |-> TRUE, err |-> "",
        records |-> SortByFirstIp(ParseLines(gzipped_data.lines).records)]

(***************************************************************************)
(* AsnStore.  slice::binary_search_by is given by the standard library in   *)
(* two published forms (early return on Equal; branch-free narrowing with   *)
(* one final comparison); a build has one of them.  Both are modelled and   *)
(* the caller picks the form.  The result is Some(idx) or None.             *)
(***************************************************************************)
AsnStoreNew(records) == records

\* the comparator with the upper bound taken as exclusive
CompareExclusiveLast(ip, record) ==
  IF IpLt(ip, record.first_ip) THEN "Greater"
  ELSE IF ~IpLt(ip, record.last_ip) THEN "Less"
  ELSE "Equal"

\* the comparator closure of AsnStore::lookup
Compare(ip, record) ==
  IF IpLt(ip, record.first_ip) THEN "Greater"
  ELSE IF IpGt(ip, record.last_ip) THEN "Less"
  ELSE "Equal"

RECURSIVE SearchEarly(_, _, _, _)
SearchEarly(records, ip, left, right) ==
  IF left >= right THEN None
  ELSE LET mid == left + ((right - left) \div 2)
           cmp == Compare(ip, records[mid + 1])
       IN IF cmp = "Equal" THEN Some(mid + 1)
          ELSE IF cmp = "Less" THEN SearchEarly(records, ip, mid + 1, right)
          ELSE SearchEarly(records, ip, left, mid)

RECURSIVE SearchNarrow(_, _, _, _)
SearchNarrow(records, ip, base, size) ==
  IF size > 1
  THEN LET half == size \div 2
           mid  == base + half
           cmp  == Compare(ip, records[mid + 1])
       IN SearchNarrow(records, ip, IF cmp = "Greater" THEN base ELSE mid,
                       size - half)
  ELSE IF Compare(ip, records[base + 1]) = "Equal" THEN Some(base + 1)
       ELSE None

SearchForms == {"early", "narrow"}

BinarySearchBy(form, records, ip) ==
  IF form = "early" THEN SearchEarly(records, ip, 0, Len(records))
  ELSE IF records = <<>> THEN None
  ELSE SearchNarrow(records, ip, 0, Len(records))

\* AsnStore::lookup
AsnStoreLookup(form, records, ip) == BinarySearchBy(form, records, ip)

\* the AsnInfo that IpToAsnDb::lookup builds from the search result
AsnInfoOfParsed(ip_str, records, found) ==
  IF IsSome(found)
  THEN LET record == records[Unwrap(found)]
       IN [ip |-> IpToString(Unwrap(ParseIpAddr(ip_str))), announced |-> TRUE,
           first_ip |-> Some(IpToString(record.first_ip)),
           last_ip |-> Some(IpToString(record.last_ip)),
           as_number |-> Some(record.number),
           as_country_code |-> Some(ArcStr(record.country)),
           as_description |-> Some(ArcStr(record.description))]
  ELSE [ip |-> IpToString(Unwrap(ParseIpAddr(ip_str))), announced |-> FALSE,
        first_ip |-> None, last_ip |-> None, as_number |-> None,
        as_country_code |-> None, as_description |-> None]

AsnInfoOf(ip_str, records, found) ==
  IF IsSome(found)
  THEN LET record == records[Unwrap(found)]
       IN [ip |-> ip_str, announced |-> TRUE,
           first_ip |-> Some(IpToString(record.first_ip)),
           last_ip |-> Some(IpToString(record.last_ip)),
           as_number |-> Some(record.number),
           as_country_code |-> Some(ArcStr(record.country)),
           as_description |-> Some(ArcStr(record.description))]
  ELSE [ip |-> ip_str, announced |-> FALSE, first_ip |-> None,
        last_ip |-> None, as_number |-> None, as_country_code |-> None,
        as_description |-> None]

\* IpToAsnDb::lookup on a quiescent store: Err(InvalidIp) or Ok(AsnInfo)
DbLookup(form, records, ip_str) ==
  IF ~IsSome(ParseIpAddr(ip_str))
  THEN [ok |-> FALSE, err |-> "InvalidIp", info |-> None]
  ELSE [ok |-> TRUE, err |-> "",
        info |-> Some(AsnInfoOf(ip_str, records,
                   AsnStoreLookup(form, records, Unwrap(ParseIpAddr(ip_str)))))]

(***************************************************************************)
(* Harness for the pure pipeline bytes -> Database::parse -> AsnStore::new  *)
(* -> lookup: the input is any text of at most MaxLines lines over Lines.   *)
(***************************************************************************)
MaxLines == 3

V4Texts == {"1.0.0.0", "1.0.0.5", "1.0.0.255"}

\* lines that differ in their interval: every ordered and reversed pair
RangeLines == {<<f, l, "15169", "US", "GOOGLE">> : f, l \in V4Texts}

FamilyLines ==
  { <<"::1", "0::1", "1", "US", "V6NET", "extra">>,
    <<"1.0.0.255", "::1", "2", "GOOGLE", "US">> }

\* lines that differ in their syntax: blank, short, unparsable, optional fields
SyntaxLines ==
  { <<"">>,
    <<" ", "">>,
    <<"1.0.0.0", "1.0.0.5">>,
    <<"not-an-ip", "1.0.0.5", "1", "US", "GOOGLE">>,
    <<"1.0.0.0", "not-an-ip", "1", "US", "GOOGLE">>,
    <<"1.0.0.0", "1.0.0.5", "x", "US", "GOOGLE">>,
    <<"1.0.0.5", "1.0.0.255", "2">>,
    <<"1.0.0.0", "1.0.0.0", "+2", "DE">>,
    <<"1.0.0.0", "1.0.0.5", "15169", "US", "GOOGLE">> }

TextsOver(S) == UNION {[1..n -> S] : n \in 0..MaxLines}

Texts == TextsOver(RangeLines \cup FamilyLines) \cup TextsOver(SyntaxLines)

HarnessInputs == {Bytes(TRUE, t) : t \in Texts} \cup {Bytes(FALSE, <<>>)}

ProbeTexts == IpTexts \cup {"not-an-ip"}

VARIABLES gzipped_data, database, probe

hvars == <<gzipped_data, database, probe>>

HarnessInit ==
  /\ gzipped_data \in HarnessInputs
  /\ database = None
  /\ probe = None

\* Database::parse(data) followed by AsnStore::new(database)
HParse ==
  /\ database = None
  /\ database' = Some(DatabaseParse(gzipped_data))
  /\ UNCHANGED <<gzipped_data, probe>>

\* IpToAsnDb::lookup(ip) against the store built from the parsed database
HLookup ==
  /\ IsSome(database)
  /\ Unwrap(database).ok
  /\ \E ip_str \in ProbeTexts, form \in SearchForms :
       probe' = Some([ip |-> ip_str,
                      result |-> DbLookup(form,
                                   AsnStoreNew(Unwrap(database).records),
                                   ip_str)])
  /\ UNCHANGED <<gzipped_data, database>>




(***************************************************************************)
(* The engine: IpToAsnDb behind IpToAsn, its DatabaseFetcher, the cache     *)
(* directory, the origin, and the callers.                                  *)
(*                                                                          *)
(* A snapshot body is named by an id; BodyBytes gives its content.          *)
(***************************************************************************)
MaxSwaps == 2
MaxTasks == 2

BodyBytes(id) ==
  CASE id = "D1" -> Bytes(TRUE, << <<"1.0.0.0", "1.0.0.255", "1", "US", "AS1">> >>)
    [] id = "D2" -> Bytes(TRUE, << <<"1.0.0.0", "1.0.0.255", "2", "US", "AS2">>,
                                   <<"::1", "::1", "2", "US", "AS2">> >>)
    [] id = "BAD" -> Bytes(FALSE, <<>>)

\* what the origin (or the file:// path) can deliver
OriginBodies == {"D1", "D2", "BAD"}

\* the etag / last-modified response headers the origin sends with a body
HeaderEtag(id) ==
  CASE id = "D1" -> Some("e1") [] id = "D2" -> Some("e2") [] OTHER -> None
HeaderLastModified(id) ==
  CASE id = "D1" -> Some("m1") [] id = "D2" -> Some("m2") [] OTHER -> None

Urls == {"https://origin/ip2asn.tsv.gz", "file:///data/ip2asn.tsv.gz",
         "ftp://origin/ip2asn.tsv.gz"}
IsFileUrl(u) == u = "file:///data/ip2asn.tsv.gz"
IsHttpUrl(u) == u = "https://origin/ip2asn.tsv.gz"

Intervals == {-1, 0, 1}

Loader == <<"load", 0>>
Reader == <<"reader", 0>>
Task(t) == <<"task", t>>
TaskIds == 1..MaxTasks
Callers == {"a", "b"}

VARIABLES
  url,               \* DatabaseFetcher.url
  fetcher,           \* DatabaseFetcher.etag / .last_modified
  disk,              \* cache_dir: ip2asn-combined.tsv.gz and metadata.json
  fetcher_lock,      \* IpToAsnDb.fetcher (tokio Mutex): the holder
  store,             \* IpToAsnDb.store: the AsnStore value (gen: its identity)
  store_lock,        \* IpToAsnDb.store (RwLock): writer and readers
  last_update,       \* IpToAsnDb.last_update
  last_update_lock,  \* IpToAsnDb.last_update (RwLock): writer and readers
  updater_handle,    \* IpToAsn.updater_handle
  tasks,             \* the tasks spawned by start_updater
  loader,            \* a caller of load / force_update
  control,           \* callers of start_auto_update / stop_auto_update
  reader,            \* a caller of lookup / stats
  returned           \* the call that has just returned, with its result

evars == <<url, fetcher, disk, fetcher_lock, store, store_lock, last_update,
           last_update_lock, updater_handle, tasks, loader, control, reader,
           returned>>

vars == <<evars, hvars>>

Unlocked == [writer |-> None, readers |-> {}]

\* tokio RwLock: write() is granted when nobody holds the lock, read() when
\* no writer holds it
CanWriteAmongReaders(lock) == lock.writer = None

CanWrite(lock) == lock = Unlocked

CanRead(lock) == lock.writer = None

\* tokio Mutex: lock() is granted when nobody holds the mutex
CanLockHeld(mutex) == TRUE

CanLock(mutex) == mutex = None

\* fetch() results
FetchSome(id) == [tag |-> "Some", val |-> id]
FetchNone == [tag |-> "None", val |-> ""]
FetchErr(kind) == [tag |-> "Err", val |-> kind]

\* AsnStore::new(Database::new()): the Store of a fresh engine
EmptyStoreSeeded ==
  [gen |-> 0, src |-> "D1",
   records |-> AsnStoreNew(DatabaseParse(BodyBytes("D1")).records)]

EmptyStore == [gen |-> 0, src |-> "", records |-> AsnStoreNew(<<>>)]

LoaderIdle ==
  [pc |-> "idle", body |-> "", new_store |-> None, before |-> None,
   fetched |-> None]
TaskAt(pc) ==
  [pc |-> pc, aborted |-> FALSE, body |-> "", new_store |-> None,
   before |-> None]
ControlIdle == [pc |-> "idle", arg |-> 0, handle |-> None]
ReaderIdle == [pc |-> "idle", ip |-> "", view |-> None, found |-> None]

\* DatabaseFetcher::load_metadata
LoadMetadata(metadata_file) ==
  IF IsSome(metadata_file) THEN Unwrap(metadata_file)
  ELSE [etag |-> None, last_modified |-> None]

\* the cache directory as an earlier run of the engine may have left it
InitialDisks ==
  { [cache |-> None, metadata |-> None],
    [cache |-> Some("D1"),
     metadata |-> Some([etag |-> Some("e1"), last_modified |-> Some("m1")])] }

\* IpToAsn::new -> IpToAsnDb::new -> DatabaseFetcher::new
EngineNew(u, d) ==
  /\ url = u
  /\ disk = d
  /\ fetcher = LoadMetadata(disk.metadata)
  /\ fetcher_lock = None
  /\ store = EmptyStore
  /\ store_lock = Unlocked
  /\ last_update = None
  /\ last_update_lock = Unlocked
  /\ updater_handle = None
  /\ tasks = [t \in TaskIds |-> TaskAt("unborn")]
  /\ loader = LoaderIdle
  /\ control = [c \in Callers |-> ControlIdle]
  /\ reader = ReaderIdle
  /\ returned = None

EngineInit == \E u \in Urls, d \in InitialDisks : EngineNew(u, d)

(***************************************************************************)
(* DatabaseFetcher::fetch.  The file and unsupported-scheme paths never     *)
(* suspend.  fetch_remote suspends twice: in send() and in bytes().         *)
(***************************************************************************)
RustOk(v) == [ok |-> TRUE, val |-> v]
RustErr(e) == [ok |-> FALSE, val |-> e]

\* what request.send().await can yield: a transport error (status 0) or a
\* response with a status and, for 200, a body
Responses ==
  {[status |-> st, body |-> ""] : st \in {0, 304, 500}}
    \cup {[status |-> 200, body |-> b] : b \in OriginBodies}

\* fetch_local_file: std::fs::read(path) fails or yields the file
LocalReads == {FetchErr("Io")} \cup {FetchSome(b) : b \in OriginBodies}

\* fetch() up to its first suspension, for the schemes that never suspend
FetchNoSuspend == IF IsFileUrl(url) THEN LocalReads ELSE {FetchErr("HttpRequest")}

\* fetch_remote after send(): 304, a failure status, or the headers of a 2xx
SendFinal(resp) ==
  IF resp.status = 304 THEN FetchNone ELSE FetchErr("HttpRequest")

TokensAfter(id) ==
  [etag |-> IF IsSome(HeaderEtag(id)) THEN HeaderEtag(id) ELSE fetcher.etag,
   last_modified |-> IF IsSome(HeaderLastModified(id))
                     THEN HeaderLastModified(id) ELSE fetcher.last_modified]

\* fetch_remote after bytes(): the body read, save_to_cache and save_metadata
\* each succeed or fail; a failed std::fs::write leaves the file as it was
BodyEvents == {"read_error", "cache_error", "metadata_error", "ok"}

BodyResult(ev, id) ==
  CASE ev = "read_error" -> FetchErr("HttpParse")
    [] ev = "ok" -> FetchSome(id)
    [] OTHER -> FetchErr("Io")

DiskAfterBodyPurging(ev, id) ==
  CASE ev = "read_error" -> [disk EXCEPT !.cache = None]
    [] ev = "cache_error" -> disk
    [] ev = "metadata_error" -> [disk EXCEPT !.cache = Some(id)]
    [] ev = "ok" -> [cache |-> Some(id), metadata |-> Some(fetcher)]

DiskAfterBody(ev, id) ==
  CASE ev = "read_error" -> disk
    [] ev = "cache_error" -> disk
    [] ev = "metadata_error" -> [disk EXCEPT !.cache = Some(id)]
    [] ev = "ok" -> [cache |-> Some(id), metadata |-> Some(fetcher)]

\* DatabaseFetcher::load_from_cache
LoadFromCacheReportingIo(cache, readable) ==
  IF IsSome(cache) /\ readable THEN RustOk(Unwrap(cache)) ELSE RustErr("Io")

LoadFromCache(cache, readable) ==
  IF IsSome(cache)
  THEN IF readable THEN RustOk(Unwrap(cache)) ELSE RustErr("Io")
  ELSE RustErr("DatabaseNotLoaded")

\* what a refresh finds when it takes the fetcher lock
Snapshot == Some([store |-> store, last_update |-> last_update])

\* the same with the cache directory
SnapshotWithDisk ==
  Some([store |-> store, last_update |-> last_update, disk |-> disk])

NewStore(id) ==
  Some([src |-> id,
        records |-> AsnStoreNew(DatabaseParse(BodyBytes(id)).records)])

(***************************************************************************)
(* IpToAsnDb::load, also reached through IpToAsn::load and force_update.    *)
(***************************************************************************)
\* a returned call is taken by its caller before anything else moves
Running == returned = None

Returned(who, api, arg, outcome) ==
  Some([who |-> who, api |-> api, arg |-> arg, ok |-> outcome.ok,
        val |-> outcome.val])

\* IpToAsn::load maps Ok to (), IpToAsn::force_update maps it to true
NodeResult(api, outcome) ==
  IF outcome.ok THEN RustOk(IF api = "force_update" THEN "true" ELSE "()")
  ELSE outcome

\* what load's match on fetch() tells apart: Ok(Some(data)), Ok(None), Err(_)
Matched(fres) == IF fres.tag = "Err" THEN FetchErr("_") ELSE fres

\* db.load() returns to IpToAsn::load or IpToAsn::force_update, whichever
\* awaited it; fetched is the arm of the match on fetch() that was taken,
\* built the store the call installed
LoadReturn(fetched, outcome) ==
  /\ loader' = LoaderIdle
  /\ \E api \in {"load", "force_update"} :
       returned' = Returned(Loader, api,
                            [before |-> IF IsSome(loader.before)
                                        THEN Unwrap(loader.before)
                                        ELSE Unwrap(SnapshotWithDisk),
                             fetched |-> fetched, built |-> loader.new_store],
                            NodeResult(api, outcome))
  /\ fetcher_lock' = None

\* the ? of load_from_cache()? and Database::parse(data)?: an early return
LoadFailClearing(fetched, err) ==
  /\ LoadReturn(fetched, err)
  /\ store' = EmptyStore
  /\ last_update' = None

LoadFail(fetched, err) ==
  /\ LoadReturn(fetched, err)
  /\ UNCHANGED <<store, last_update>>

\* load from the fetch result to store.write().await, or to the error return
LoadAfterFetch(fres, cache) ==
  \E readable \in BOOLEAN :
    LET data == IF fres.tag = "Some" THEN RustOk(fres.val)
                ELSE LoadFromCache(cache, readable)
    IN IF ~data.ok
       THEN LoadFail(Matched(fres), data)
       ELSE IF ~DatabaseParse(BodyBytes(data.val)).ok
       THEN LoadFail(Matched(fres), RustErr("DatabaseParse"))
       ELSE /\ UNCHANGED <<returned, store, last_update>>
            /\ loader' = [loader EXCEPT !.pc = "swap_acq", !.body = "",
                                        !.new_store = NewStore(data.val),
                                        !.fetched = Some(Matched(fres)),
                                        !.before = IF IsSome(@) THEN @
                                                   ELSE SnapshotWithDisk]
            /\ fetcher_lock' = Some(Loader)

LoadCall ==
  /\ Running
  /\ loader.pc = "idle"
  /\ loader' = [loader EXCEPT !.pc = "lock"]
  /\ UNCHANGED <<url, fetcher, disk, fetcher_lock, store, store_lock,
                 last_update, last_update_lock, updater_handle, tasks, control,
                 reader, returned,
                 hvars>>

\* fetcher.lock().await, then fetch() up to its first suspension
LoadLock ==
  /\ Running
  /\ loader.pc = "lock"
  /\ CanLock(fetcher_lock)
  /\ store.gen < MaxSwaps
  /\ IF IsHttpUrl(url)
     THEN /\ loader' = [loader EXCEPT !.pc = "send",
                                      !.before = SnapshotWithDisk]
          /\ fetcher_lock' = Some(Loader)
          /\ UNCHANGED <<returned, store, last_update>>
     ELSE \E fres \in FetchNoSuspend : LoadAfterFetch(fres, disk.cache)
  /\ UNCHANGED <<url, fetcher, disk, store_lock, last_update_lock,
                 updater_handle, tasks, control, reader, hvars>>

\* request.send().await returns
LoadSend ==
  /\ Running
  /\ loader.pc = "send"
  /\ \E resp \in Responses :
       IF resp.status = 200
       THEN /\ fetcher' = TokensAfter(resp.body)
            /\ loader' = [loader EXCEPT !.pc = "body", !.body = resp.body]
            /\ UNCHANGED <<fetcher_lock, returned, store, last_update>>
       ELSE /\ LoadAfterFetch(SendFinal(resp), disk.cache)
            /\ UNCHANGED fetcher
  /\ UNCHANGED <<url, disk, store_lock, last_update_lock, updater_handle,
                 tasks, control, reader, hvars>>

\* response.bytes().await returns; cache and metadata are written
LoadBody ==
  /\ Running
  /\ loader.pc = "body"
  /\ \E ev \in BodyEvents :
       /\ disk' = DiskAfterBody(ev, loader.body)
       /\ LoadAfterFetch(BodyResult(ev, loader.body),
                         DiskAfterBody(ev, loader.body).cache)
  /\ UNCHANGED <<url, fetcher, store_lock, last_update_lock, updater_handle,
                 tasks, control, reader, hvars>>

\* self.store.write().await
LoadSwapAcquire ==
  /\ Running
  /\ loader.pc = "swap_acq"
  /\ CanWrite(store_lock)
  /\ store_lock' = [store_lock EXCEPT !.writer = Some(Loader)]
  /\ loader' = [loader EXCEPT !.pc = "swap"]
  /\ UNCHANGED <<url, fetcher, disk, fetcher_lock, store, last_update,
                 last_update_lock, updater_handle, tasks, control, reader,
                 returned,
                 hvars>>

\* the swap with its guard kept until load returns
LoadSwapHolding ==
  /\ Running
  /\ loader.pc = "swap"
  /\ store' = [gen |-> store.gen + 1, src |-> Unwrap(loader.new_store).src,
               records |-> Unwrap(loader.new_store).records]
  /\ loader' = [loader EXCEPT !.pc = "stamp_acq"]
  /\ UNCHANGED <<url, fetcher, disk, fetcher_lock, store_lock, last_update,
                 last_update_lock, updater_handle, tasks, control, reader,
                 returned, hvars>>

\* *store_guard = new_store; the guard is dropped
LoadSwapSkipped ==
  /\ Running
  /\ loader.pc = "swap"
  /\ store_lock' = [store_lock EXCEPT !.writer = None]
  /\ loader' = [loader EXCEPT !.pc = "stamp_acq"]
  /\ UNCHANGED <<url, fetcher, disk, fetcher_lock, store, last_update,
                 last_update_lock, updater_handle, tasks, control, reader,
                 returned, hvars>>

LoadSwap ==
  /\ Running
  /\ loader.pc = "swap"
  /\ store' = [gen |-> store.gen + 1, src |-> Unwrap(loader.new_store).src,
               records |-> Unwrap(loader.new_store).records]
  /\ store_lock' = [store_lock EXCEPT !.writer = None]
  /\ loader' = [loader EXCEPT !.pc = "stamp_acq"]
  /\ UNCHANGED <<url, fetcher, disk, fetcher_lock, last_update,
                 last_update_lock, updater_handle, tasks, control, reader,
                 returned,
                 hvars>>

\* self.last_update.write().await
LoadStampAcquire ==
  /\ Running
  /\ loader.pc = "stamp_acq"
  /\ CanWrite(last_update_lock)
  /\ last_update_lock' = [last_update_lock EXCEPT !.writer = Some(Loader)]
  /\ loader' = [loader EXCEPT !.pc = "stamp"]
  /\ UNCHANGED <<url, fetcher, disk, fetcher_lock, store, store_lock,
                 last_update, updater_handle, tasks, control, reader, returned,
                 hvars>>

\* SystemTime::now(): later than every instant stored before
Now == IF IsSome(last_update) THEN Unwrap(last_update) + 1 ELSE 1

\* *last_update = Some(now); load returns Ok and the fetcher guard is dropped
LoadStamp ==
  /\ Running
  /\ loader.pc = "stamp"
  /\ last_update' = Some(Now)
  /\ last_update_lock' = [last_update_lock EXCEPT !.writer = None]
  /\ LoadReturn(Unwrap(loader.fetched), RustOk("()"))
  /\ UNCHANGED <<url, fetcher, disk, store, store_lock, updater_handle, tasks,
                 control, reader, hvars>>

\* the steps of load() for every scheme, and those of fetch_remote alone
LoadLocal == \/ LoadCall \/ LoadLock \/ LoadSwapAcquire \/ LoadSwap
             \/ LoadStampAcquire \/ LoadStamp

LoadRemote == LoadSend \/ LoadBody

LoadStep == LoadLocal \/ LoadRemote

(***************************************************************************)
(* The task spawned by IpToAsnDb::start_updater.  It can be cancelled where *)
(* it awaits; code between two awaits runs to the next await.               *)
(***************************************************************************)
\* what a tick logs when it ends without a swap
TickLog(fres) ==
  CASE fres.tag = "Some" -> "Failed to parse database"
    [] fres.tag = "None" -> "Database is up to date"
    [] OTHER -> "Database update failed"

\* the end of the loop body: back to tokio::time::sleep(interval).await
SleepingNoMore(t) == TaskAt("dead")

Sleeping(t) == [TaskAt("sleep") EXCEPT !.aborted = tasks[t].aborted]

\* the tick logs its last line, drop(fetcher_guard), and the loop goes round
TickEnd(t, line) ==
  /\ tasks' = [tasks EXCEPT ![t] = Sleeping(t)]
  /\ fetcher_lock' = None
  /\ returned' = Returned(Task(t), "tick", tasks[t].before,
                          [ok |-> line = "Database updated successfully",
                           val |-> line])

\* the tick from the fetch result to store.write().await, or to the next sleep
TickAfterFetchFromCache(t, fres) ==
  LET data == IF fres.tag = "Some" THEN Some(fres.val) ELSE disk.cache
  IN IF IsSome(data) /\ DatabaseParse(BodyBytes(Unwrap(data))).ok
     THEN /\ tasks' = [tasks EXCEPT ![t].pc = "swap_acq", ![t].body = "",
                                    ![t].new_store = NewStore(Unwrap(data)),
                                    ![t].before = IF IsSome(@) THEN @
                                                  ELSE Snapshot]
          /\ fetcher_lock' = Some(Task(t))
          /\ UNCHANGED returned
     ELSE TickEnd(t, TickLog(fres))

TickAfterFetch(t, fres) ==
  IF fres.tag = "Some" /\ DatabaseParse(BodyBytes(fres.val)).ok
  THEN /\ tasks' = [tasks EXCEPT ![t].pc = "swap_acq", ![t].body = "",
                                 ![t].new_store = NewStore(fres.val),
                                 ![t].before = IF IsSome(@) THEN @
                                               ELSE Snapshot]
       /\ fetcher_lock' = Some(Task(t))
       /\ UNCHANGED returned
  ELSE TickEnd(t, TickLog(fres))

\* tokio::time::sleep(interval).await returns
TickWake(t) ==
  /\ Running
  /\ tasks[t].pc = "sleep"
  /\ ~tasks[t].aborted
  /\ tasks' = [tasks EXCEPT ![t].pc = "lock"]
  /\ UNCHANGED <<url, fetcher, disk, fetcher_lock, store, store_lock,
                 last_update, last_update_lock, updater_handle, loader,
                 control, reader, returned,
                 hvars>>

\* fetcher.lock().await, then fetch() up to its first suspension
TickLock(t) ==
  /\ Running
  /\ tasks[t].pc = "lock"
  /\ CanLock(fetcher_lock)
  /\ store.gen < MaxSwaps
  /\ IF IsHttpUrl(url)
     THEN /\ tasks' = [tasks EXCEPT ![t].pc = "send", ![t].before = Snapshot]
          /\ fetcher_lock' = Some(Task(t))
          /\ UNCHANGED returned
     ELSE \E fres \in FetchNoSuspend : TickAfterFetch(t, fres)
  /\ UNCHANGED <<url, fetcher, disk, store, store_lock, last_update,
                 last_update_lock, updater_handle, loader, control, reader,
                 hvars>>

\* request.send().await returns; a task aborted while it waits is not resumed
TickSend(t) ==
  /\ Running
  /\ tasks[t].pc = "send"
  /\ ~tasks[t].aborted
  /\ \E resp \in Responses :
       IF resp.status = 200
       THEN /\ fetcher' = TokensAfter(resp.body)
            /\ tasks' = [tasks EXCEPT ![t].pc = "body", ![t].body = resp.body]
            /\ UNCHANGED <<fetcher_lock, returned>>
       ELSE /\ TickAfterFetch(t, SendFinal(resp))
            /\ UNCHANGED fetcher
  /\ UNCHANGED <<url, disk, store, store_lock, last_update, last_update_lock,
                 updater_handle, loader, control, reader, hvars>>

TickBody(t) ==
  /\ Running
  /\ tasks[t].pc = "body"
  /\ \E ev \in BodyEvents :
       /\ disk' = DiskAfterBody(ev, tasks[t].body)
       /\ TickAfterFetch(t, BodyResult(ev, tasks[t].body))
  /\ UNCHANGED <<url, fetcher, store, store_lock, last_update,
                 last_update_lock, updater_handle, loader, control, reader,
                 hvars>>

TickSwapAcquire(t) ==
  /\ Running
  /\ tasks[t].pc = "swap_acq"
  /\ CanWrite(store_lock)
  /\ store_lock' = [store_lock EXCEPT !.writer = Some(Task(t))]
  /\ tasks' = [tasks EXCEPT ![t].pc = "swap"]
  /\ UNCHANGED <<url, fetcher, disk, fetcher_lock, store, last_update,
                 last_update_lock, updater_handle, loader, control, reader,
                 returned,
                 hvars>>

\* *store_guard = new_store; the guard goes out of scope
TickSwapHolding(t) ==
  /\ Running
  /\ tasks[t].pc = "swap"
  /\ store' = [gen |-> store.gen + 1, src |-> Unwrap(tasks[t].new_store).src,
               records |-> Unwrap(tasks[t].new_store).records]
  /\ tasks' = [tasks EXCEPT ![t].pc = "stamp_acq", ![t].new_store = None]
  /\ UNCHANGED <<url, fetcher, disk, fetcher_lock, store_lock, last_update,
                 last_update_lock, updater_handle, loader, control, reader,
                 returned, hvars>>

TickSwap(t) ==
  /\ Running
  /\ tasks[t].pc = "swap"
  /\ store' = [gen |-> store.gen + 1, src |-> Unwrap(tasks[t].new_store).src,
               records |-> Unwrap(tasks[t].new_store).records]
  /\ store_lock' = [store_lock EXCEPT !.writer = None]
  /\ tasks' = [tasks EXCEPT ![t].pc = "stamp_acq", ![t].new_store = None]
  /\ UNCHANGED <<url, fetcher, disk, fetcher_lock, last_update,
                 last_update_lock, updater_handle, loader, control, reader,
                 returned,
                 hvars>>

TickStampAcquire(t) ==
  /\ Running
  /\ tasks[t].pc = "stamp_acq"
  /\ CanWrite(last_update_lock)
  /\ last_update_lock' = [last_update_lock EXCEPT !.writer = Some(Task(t))]
  /\ tasks' = [tasks EXCEPT ![t].pc = "stamp"]
  /\ UNCHANGED <<url, fetcher, disk, fetcher_lock, store, store_lock,
                 last_update, updater_handle, loader, control, reader, returned,
                 hvars>>

\* the timestamp is written, drop(fetcher_guard), back to the sleep
TickStamp(t) ==
  /\ Running
  /\ tasks[t].pc = "stamp"
  /\ last_update' = Some(Now)
  /\ last_update_lock' = [last_update_lock EXCEPT !.writer = None]
  /\ TickEnd(t, "Database updated successfully")
  /\ UNCHANGED <<url, fetcher, disk, store, store_lock, updater_handle,
                 loader, control, reader, hvars>>

AwaitPcs == {"sleep", "lock", "send", "body", "swap_acq", "stamp_acq"}

\* the drop of an aborted task that leaves its fetcher guard behind
TaskCancelRetaining(t) ==
  /\ Running
  /\ tasks[t].aborted
  /\ tasks[t].pc \in AwaitPcs
  /\ tasks' = [tasks EXCEPT ![t] = TaskAt("dead")]
  /\ UNCHANGED <<url, fetcher, disk, fetcher_lock, store, store_lock,
                 last_update, last_update_lock, updater_handle, loader,
                 control, reader, returned, hvars>>

\* an aborted task is dropped at an await; its fetcher guard is released
TaskCancel(t) ==
  /\ Running
  /\ tasks[t].aborted
  /\ tasks[t].pc \in AwaitPcs
  /\ tasks' = [tasks EXCEPT ![t] = TaskAt("dead")]
  /\ fetcher_lock' = IF fetcher_lock = Some(Task(t)) THEN None ELSE fetcher_lock
  /\ UNCHANGED <<url, fetcher, disk, store, store_lock, last_update,
                 last_update_lock, updater_handle, loader, control, reader,
                 returned,
                 hvars>>

TickLocal == \E t \in TaskIds :
               \/ TickWake(t) \/ TickLock(t) \/ TickSwapAcquire(t)
               \/ TickSwap(t) \/ TickStampAcquire(t) \/ TickStamp(t)

TickRemote == \E t \in TaskIds : TickSend(t) \/ TickBody(t)

TaskCancelled == \E t \in TaskIds : TaskCancel(t)

TickStep == TickLocal \/ TickRemote \/ TaskCancelled

(***************************************************************************)
(* IpToAsn::start_auto_update and IpToAsn::stop_auto_update.                *)
(***************************************************************************)
ControlReturn(c, api, arg, outcome) ==
  /\ control' = [control EXCEPT ![c] = ControlIdle]
  /\ returned' = Returned(<<"control", c>>, api, arg, outcome)

Unborn == {t \in TaskIds : tasks[t].pc = "unborn"}
Spawning == {c \in Callers : control[c].pc = "spawn"}

\* if interval_minutes <= 0
IntervalRejectedBelowZero(interval_minutes) == interval_minutes < 0

IntervalRejected(interval_minutes) == interval_minutes <= 0

\* the handle check under the mutex, then the interval check
StartCheck(c) ==
  /\ Running
  /\ control[c].pc = "idle"
  /\ \E interval_minutes \in Intervals :
       IF IsSome(updater_handle)
       THEN ControlReturn(c, "start_auto_update", interval_minutes,
                          RustErr("Auto-update is already running"))
       ELSE IF IntervalRejected(interval_minutes)
       THEN ControlReturn(c, "start_auto_update", interval_minutes,
                          RustErr("Interval must be greater than 0"))
       ELSE /\ Cardinality(Unborn) > Cardinality(Spawning)
            /\ control' = [control EXCEPT ![c].pc = "spawn",
                                          ![c].arg = interval_minutes]
            /\ UNCHANGED returned
  /\ UNCHANGED <<url, fetcher, disk, fetcher_lock, store, store_lock,
                 last_update, last_update_lock, updater_handle, tasks, loader,
                 reader, hvars>>

\* self.db.start_updater(..): tokio::spawn of the refresh loop
StartSpawn(c) ==
  /\ Running
  /\ control[c].pc = "spawn"
  /\ LET t == CHOOSE u \in Unborn : \A v \in Unborn : u <= v
     IN /\ tasks' = [tasks EXCEPT ![t] = TaskAt("sleep")]
        /\ control' = [control EXCEPT ![c].pc = "store", ![c].handle = Some(t)]
  /\ UNCHANGED <<url, fetcher, disk, fetcher_lock, store, store_lock,
                 last_update, last_update_lock, updater_handle, loader, reader,
                 returned,
                 hvars>>

\* *handle_guard = Some(handle)
StartStore(c) ==
  /\ Running
  /\ control[c].pc = "store"
  /\ updater_handle' = control[c].handle
  /\ ControlReturn(c, "start_auto_update", control[c].arg, RustOk("()"))
  /\ UNCHANGED <<url, fetcher, disk, fetcher_lock, store, store_lock,
                 last_update, last_update_lock, tasks, loader, reader, hvars>>

\* JoinHandle::abort
AbortIgnored(t) == tasks

Abort(t) ==
  IF tasks[t].pc = "dead" THEN tasks ELSE [tasks EXCEPT ![t].aborted = TRUE]

\* handle_guard.take(), handle.abort()
StopAutoUpdateKeepingHandle(c) ==
  /\ Running
  /\ control[c].pc = "idle"
  /\ IF IsSome(updater_handle)
     THEN /\ tasks' = Abort(Unwrap(updater_handle))
          /\ ControlReturn(c, "stop_auto_update", updater_handle, RustOk("()"))
     ELSE /\ ControlReturn(c, "stop_auto_update", updater_handle,
                           RustErr("Auto-update is not running"))
          /\ UNCHANGED tasks
  /\ UNCHANGED <<url, fetcher, disk, fetcher_lock, store, store_lock,
                 last_update, last_update_lock, updater_handle, loader, reader,
                 hvars>>

StopAutoUpdate(c) ==
  /\ Running
  /\ control[c].pc = "idle"
  /\ IF IsSome(updater_handle)
     THEN /\ tasks' = Abort(Unwrap(updater_handle))
          /\ updater_handle' = None
          /\ ControlReturn(c, "stop_auto_update", updater_handle, RustOk("()"))
     ELSE /\ ControlReturn(c, "stop_auto_update", updater_handle,
                           RustErr("Auto-update is not running"))
          /\ UNCHANGED <<tasks, updater_handle>>
  /\ UNCHANGED <<url, fetcher, disk, fetcher_lock, store, store_lock,
                 last_update, last_update_lock, loader, reader, hvars>>

StartAutoUpdate(c) == StartCheck(c) \/ StartSpawn(c) \/ StartStore(c)

ControlStep(C) == \E c \in C : StartAutoUpdate(c) \/ StopAutoUpdate(c)

(***************************************************************************)
(* IpToAsnDb::lookup and IpToAsnDb::stats, called from a synchronous        *)
(* caller.  view records the store the call took its read guard on.         *)
(***************************************************************************)
LookupTexts == {"1.0.0.5", "0::1", "not-an-ip"}

\* the store value and the instant a read guard gives access to
View == Some([gen |-> store.gen, records |-> store.records])

ReaderReturn(api, outcome) ==
  /\ reader' = ReaderIdle
  /\ returned' = Returned(Reader, api,
                          [ip |-> reader.ip, view |-> reader.view], outcome)

\* ip.parse::<IpAddr>(), then block_on(self.store.read())
LookupCall ==
  /\ Running
  /\ reader.pc = "idle"
  /\ \E ip \in LookupTexts :
       IF ~IsSome(ParseIpAddr(ip))
       THEN /\ reader' = ReaderIdle
            /\ returned' = Returned(Reader, "lookup",
                             [ip |-> ip, view |-> None], RustErr("InvalidIp"))
            /\ UNCHANGED store_lock
       ELSE /\ CanRead(store_lock)
            /\ store_lock' = [store_lock EXCEPT !.readers = @ \cup {Reader}]
            /\ reader' = [reader EXCEPT !.pc = "search", !.ip = ip,
                                        !.view = View]
            /\ UNCHANGED returned
  /\ UNCHANGED <<url, fetcher, disk, fetcher_lock, store, last_update,
                 last_update_lock, updater_handle, tasks, loader, control,
                 hvars>>

\* store.lookup(parsed_ip)
LookupSearch ==
  /\ Running
  /\ reader.pc = "search"
  /\ \E form \in SearchForms :
       reader' = [reader EXCEPT !.pc = "found",
                    !.found = AsnStoreLookup(form, store.records,
                                             Unwrap(ParseIpAddr(reader.ip)))]
  /\ UNCHANGED <<url, fetcher, disk, fetcher_lock, store, store_lock,
                 last_update, last_update_lock, updater_handle, tasks, loader,
                 control, returned, hvars>>

\* the AsnInfo is built from the record; the read guard is dropped
LookupReturn ==
  /\ Running
  /\ reader.pc = "found"
  /\ ReaderReturn("lookup",
                  RustOk(AsnInfoOf(reader.ip, store.records, reader.found)))
  /\ store_lock' = [store_lock EXCEPT !.readers = @ \ {Reader}]
  /\ UNCHANGED <<url, fetcher, disk, fetcher_lock, store, last_update,
                 last_update_lock, updater_handle, tasks, loader, control,
                 hvars>>

\* block_on(self.store.read())
StatsCall ==
  /\ Running
  /\ reader.pc = "idle"
  /\ CanRead(store_lock)
  /\ store_lock' = [store_lock EXCEPT !.readers = @ \cup {Reader}]
  /\ reader' = [reader EXCEPT !.pc = "stats_store", !.view = View]
  /\ UNCHANGED <<url, fetcher, disk, fetcher_lock, store, last_update,
                 last_update_lock, updater_handle, tasks, loader, control,
                 returned, hvars>>

\* block_on(self.last_update.read())
StatsStamp ==
  /\ Running
  /\ reader.pc = "stats_store"
  /\ CanRead(last_update_lock)
  /\ last_update_lock' = [last_update_lock EXCEPT !.readers = @ \cup {Reader}]
  /\ reader' = [reader EXCEPT !.pc = "stats_stamp"]
  /\ UNCHANGED <<url, fetcher, disk, fetcher_lock, store, store_lock,
                 last_update, updater_handle, tasks, loader, control,
                 returned, hvars>>

\* DbStats is built; both read guards are dropped
StatsReturn ==
  /\ Running
  /\ reader.pc = "stats_stamp"
  /\ ReaderReturn("stats",
                  RustOk([record_count |-> Len(store.records),
                          last_update |-> last_update]))
  /\ store_lock' = [store_lock EXCEPT !.readers = @ \ {Reader}]
  /\ last_update_lock' = [last_update_lock EXCEPT !.readers = @ \ {Reader}]
  /\ UNCHANGED <<url, fetcher, disk, fetcher_lock, store, last_update,
                 updater_handle, tasks, loader, control, hvars>>

\* the caller takes the result: nothing of the engine changes
Resume ==
  /\ IsSome(returned)
  /\ returned' = None
  /\ UNCHANGED <<url, fetcher, disk, fetcher_lock, store, store_lock,
                 last_update, last_update_lock, updater_handle, tasks, loader,
                 control, reader, hvars>>

ReaderStep == \/ LookupCall \/ LookupSearch \/ LookupReturn
              \/ StatsCall \/ StatsStamp \/ StatsReturn

(***************************************************************************)
(* The engine with its callers.  Spec is the refreshing engine: load and    *)
(* force_update, the scheduler and its task, over every URL scheme.         *)
(* ReadSpec adds the synchronous readers to an engine on a local file.      *)
(* ControlSpec has two callers of the scheduler API at once, in place of    *)
(* the readers.  ParseSpec is the pure pipeline next to a fresh engine.     *)
(***************************************************************************)
HarnessIdle ==
  /\ gzipped_data = Bytes(FALSE, <<>>)
  /\ database = None
  /\ probe = None

Init == EngineInit /\ HarnessIdle

Next == LoadStep \/ TickStep \/ ControlStep({"a"}) \/ Resume

Spec == Init /\ [][Next]_vars

LocalInit ==
  /\ \E d \in InitialDisks : EngineNew("file:///data/ip2asn.tsv.gz", d)
  /\ HarnessIdle

ReadNext == \/ LoadLocal \/ TickLocal \/ TaskCancelled
            \/ ControlStep({"a"}) \/ ReaderStep \/ Resume

ReadSpec == LocalInit /\ [][ReadNext]_vars

\* the timer of a sleeping task fires whatever the callers do, and a caller
\* takes the result of its call
TimerFires == \A t \in TaskIds : SF_vars(TickWake(t))

\* the scheduler and its task alone, under that fairness
TickNext == TickStep \/ ControlStep({"a"}) \/ Resume

TickSpec == Init /\ [][TickNext]_vars /\ TimerFires /\ WF_vars(Resume)

ControlNext == \/ LoadLocal \/ TickLocal \/ TaskCancelled
               \/ ControlStep(Callers) \/ Resume

ControlSpec == LocalInit /\ [][ControlNext]_vars

FreshDisk == [cache |-> None, metadata |-> None]

ParseInit == HarnessInit /\ EngineNew("file:///data/ip2asn.tsv.gz", FreshDisk)

ParseStep == HParse /\ UNCHANGED evars

ProbeStep == HLookup /\ UNCHANGED evars

ParseNext == ParseStep \/ ProbeStep

ParseSpec == ParseInit /\ [][ParseNext]_vars

\* the steps load, a tick and a synchronous caller take by themselves once
\* called: lock grants, the swap and the stamp, the drop of an aborted task
LoadProgress == \/ LoadLock \/ LoadSwapAcquire \/ LoadSwap
                \/ LoadStampAcquire \/ LoadStamp

TaskProgress == \E t \in TaskIds :
                  \/ TickSwapAcquire(t) \/ TickSwap(t) \/ TickStampAcquire(t)
                  \/ TickStamp(t) \/ TaskCancel(t)

ReaderProgress == LookupSearch \/ LookupReturn \/ StatsStamp \/ StatsReturn

\* the runtime polls every task that can run, a lock is granted to whoever
\* waits for it, and a synchronous caller runs to its return
FairScheduling ==
  /\ SF_vars(Resume)
  /\ SF_vars(LoadProgress)
  /\ SF_vars(TaskProgress)
  /\ SF_vars(ReaderProgress)

\* the engine on a local source with an empty cache directory and its
\* callers, under that fairness
LiveInit == EngineNew("file:///data/ip2asn.tsv.gz", FreshDisk) /\ HarnessIdle

LiveSpec == LiveInit /\ [][ReadNext]_vars /\ FairScheduling

(***************************************************************************)
(*                              Properties                                  *)
(***************************************************************************)
Covers(record, ip) == IpLe(record.first_ip, ip) /\ IpLe(ip, record.last_ip)

CoveringSlots(records, ip) == {i \in 1..Len(records) : Covers(records[i], ip)}

SortedByFirstIp(records) ==
  \A i, j \in 1..Len(records) :
    i < j => IpLe(records[i].first_ip, records[j].first_ip)

NonOverlapping(records) ==
  \A i, j \in 1..Len(records) :
    i # j => \/ IpLt(records[i].last_ip, records[j].first_ip)
             \/ IpLt(records[j].last_ip, records[i].first_ip)

WellFormedTable(records) ==
  /\ SortedByFirstIp(records)
  /\ \A i \in 1..Len(records) : IpLe(records[i].first_ip, records[i].last_ip)
  /\ NonOverlapping(records)

ProbeAnswered == IsSome(probe) /\ Unwrap(probe).result.ok
ProbeIp == Unwrap(ParseIpAddr(Unwrap(probe).ip))
ProbeInfo == Unwrap(Unwrap(probe).result.info)
ProbeTable == Unwrap(database).records

\* C2: on every table Database::parse produces, lookup of a valid address
\* answers announced=true exactly when some record of the table covers it.
C2_AnnouncedIffCovered ==
  ProbeAnswered =>
    (ProbeInfo.announced <=> CoveringSlots(ProbeTable, ProbeIp) # {})

\* C3: on a table that is sorted by first_ip, has first_ip <= last_ip in
\* every record and no overlap, lookup returns the one covering record with
\* that record's five fields, and nothing when no record covers the address.
C3_UniqueCoveringRecord ==
  (ProbeAnswered /\ WellFormedTable(ProbeTable)) =>
    LET slots == CoveringSlots(ProbeTable, ProbeIp)
    IN IF slots = {}
       THEN /\ ~ProbeInfo.announced
            /\ ProbeInfo.first_ip = None /\ ProbeInfo.last_ip = None
            /\ ProbeInfo.as_number = None
            /\ ProbeInfo.as_country_code = None
            /\ ProbeInfo.as_description = None
       ELSE /\ Cardinality(slots) = 1
            /\ \E i \in slots :
                 /\ ProbeInfo.announced
                 /\ ProbeInfo.first_ip = Some(IpToString(ProbeTable[i].first_ip))
                 /\ ProbeInfo.last_ip = Some(IpToString(ProbeTable[i].last_ip))
                 /\ ProbeInfo.as_number = Some(ProbeTable[i].number)
                 /\ ProbeInfo.as_country_code = Some(ProbeTable[i].country[3])
                 /\ ProbeInfo.as_description = Some(ProbeTable[i].description[3])

\* a three-record well-formed table answering a probe of its last interval
C3_Witness ==
  /\ ProbeAnswered
  /\ WellFormedTable(ProbeTable)
  /\ Len(ProbeTable) = 3
  /\ ProbeInfo.announced
  /\ ProbeInfo.first_ip = Some("1.0.0.255")

(***************************************************************************)
(* The call that has just returned, and the calls in flight.                *)
(***************************************************************************)
Ret == Unwrap(returned)

LoadReturned ==
  IsSome(returned) /\ Ret.who = Loader /\ Ret.api \in {"load", "force_update"}

LookupReturned == IsSome(returned) /\ Ret.who = Reader /\ Ret.api = "lookup"

StatsReturned == IsSome(returned) /\ Ret.who = Reader /\ Ret.api = "stats"

LookupInFlight == reader.pc \in {"search", "found"}

StatsInFlight == reader.pc \in {"stats_store", "stats_stamp"}

SwapPending ==
  \/ loader.pc = "swap_acq"
  \/ \E t \in TaskIds : tasks[t].pc = "swap_acq"

\* C1: a lookup runs against one Store from taking its read guard to its
\* return: no load and no tick replaces the Store in between, the record it
\* found and every field it returns come from that Store, and a lookup of a
\* valid address never fails.  A lookup therefore answers from the old Store
\* when it took the guard before the swap and from the new one afterwards.
C1_LookupAtomic ==
  /\ LookupInFlight =>
       /\ reader.view = View
       /\ Reader \in store_lock.readers
       /\ store_lock.writer = None
  /\ reader.pc = "found" =>
       \E form \in SearchForms :
         reader.found = AsnStoreLookup(form, Unwrap(reader.view).records,
                                       Unwrap(ParseIpAddr(reader.ip)))
  /\ (LookupReturned /\ IsSome(ParseIpAddr(Ret.arg.ip))) =>
       /\ Ret.ok
       /\ \E form \in SearchForms :
            DbLookup(form, Unwrap(Ret.arg.view).records,
                     Ret.arg.ip).info = Some(Ret.val)

\* a lookup holds the old Store while a load or a tick waits to swap, with a
\* Store already installed
C1_Witness ==
  /\ LookupInFlight
  /\ SwapPending
  /\ store.gen >= 1
  /\ reader.pc = "found" /\ IsSome(reader.found)

LoadOk == LoadReturned /\ Ret.ok

\* what a successful load leaves behind when it returns
C5_AtReturn ==
  LoadOk =>
    /\ IsSome(Ret.arg.built)
    /\ store.records = Unwrap(Ret.arg.built).records
    /\ store.gen = Ret.arg.before.store.gen + 1
    /\ IsSome(last_update)
    /\ store_lock.writer = None /\ last_update_lock.writer = None

\* what lookup and stats read
C5_Observed ==
  /\ (LookupInFlight \/ StatsInFlight) => reader.view = View
  /\ StatsReturned =>
       /\ Ret.ok
       /\ Unwrap(Ret.arg.view) = Unwrap(View)
       /\ Ret.val.record_count = Len(store.records)
       /\ Ret.val.last_update = last_update

\* a Store is only ever replaced by a newer one, a timestamp by a later one
C5_NeverOlder ==
  /\ store'.gen >= store.gen
  /\ store'.gen = store.gen => store' = store
  /\ IsSome(last_update) =>
       IsSome(last_update') /\ Unwrap(last_update') >= Unwrap(last_update)

\* C5: when load returns Ok the Store holds the records that load parsed and
\* last_update is present; afterwards the Store is only replaced by a later
\* refresh and last_update never goes back or away; lookup and stats read the
\* Store and the timestamp that are current while they run, so
\* stats().record_count is the number of records of that Store.
C5_LoadThenRead == [](C5_AtReturn /\ C5_Observed) /\ [][C5_NeverOlder]_vars

\* after a second successful load, stats returns its count and timestamp
C5_Witness ==
  /\ StatsReturned
  /\ store.gen = 2
  /\ Ret.val.record_count = 2
  /\ Ret.val.last_update = Some(2)

(***************************************************************************)
(* The scheduler: IDLE is an empty handle slot, RUNNING a filled one.       *)
(***************************************************************************)
SchedulerRunning == IsSome(updater_handle)

StartReturns(c) ==
  /\ IsSome(returned')
  /\ Unwrap(returned').who = <<"control", c>>
  /\ Unwrap(returned').api = "start_auto_update"

StopReturns(c) ==
  /\ IsSome(returned')
  /\ Unwrap(returned').who = <<"control", c>>
  /\ Unwrap(returned').api = "stop_auto_update"

AlreadyRunning == RustErr("Auto-update is already running")
NotRunning == RustErr("Auto-update is not running")
IntervalError == RustErr("Interval must be greater than 0")

Outcome(r) == [ok |-> r.ok, val |-> r.val]

C8_Transitions ==
  \A c \in Callers :
    \* start_auto_update, judged where it checks the handle slot
    /\ (control[c].pc = "idle" /\ StartReturns(c)) =>
         /\ UNCHANGED <<updater_handle, tasks>>
         /\ IF SchedulerRunning
            THEN Outcome(Unwrap(returned')) = AlreadyRunning
            ELSE /\ Outcome(Unwrap(returned')) = IntervalError
                 /\ Unwrap(returned').arg <= 0
    /\ (control[c].pc = "idle" /\ control'[c].pc = "spawn") =>
         /\ ~SchedulerRunning
         /\ control'[c].arg > 0
    /\ control[c].pc = "spawn" => control'[c].pc \in {"spawn", "store"}
    /\ (control[c].pc = "store" /\ control'[c] # control[c]) =>
         /\ StartReturns(c)
         /\ Unwrap(returned').ok
         /\ SchedulerRunning'
    \* stop_auto_update
    /\ StopReturns(c) =>
         IF SchedulerRunning
         THEN Unwrap(returned').ok /\ ~SchedulerRunning'
         ELSE /\ Outcome(Unwrap(returned')) = NotRunning
              /\ UNCHANGED <<updater_handle, tasks>>

SchedulerApiStep ==
  \/ control' # control
  \/ \E c \in Callers : StartReturns(c) \/ StopReturns(c)

\* only start_auto_update and stop_auto_update move the scheduler
C8_Frame ==
  (loader' # loader \/ reader' # reader \/ ~SchedulerApiStep)
    => UNCHANGED updater_handle

\* C8: start_auto_update finding IDLE (and given a positive interval) ends
\* in RUNNING with Ok; finding RUNNING it returns the already-running error;
\* stop_auto_update in RUNNING ends in IDLE with Ok; in IDLE it returns the
\* not-running error; both errors leave handle and tasks as they are; load,
\* force_update, lookup, stats and the ticks never change the handle slot.
C8_TwoStateScheduler == [][C8_Transitions /\ C8_Frame]_vars

\* a start that succeeded again after a stop: the second task is in the slot
C8_Witness ==
  /\ IsSome(returned)
  /\ Ret.api = "start_auto_update" /\ Ret.ok
  /\ updater_handle = Some(2)
  /\ tasks[1].pc = "dead"

(***************************************************************************)
(* Refreshes: load / force_update and the ticks of the background task.     *)
(***************************************************************************)
LoadFailed == LoadReturned /\ ~Ret.ok

\* a tick between taking the fetcher lock and the end of its fetch
TickFetching(t) == tasks[t].pc \in {"send", "body"}

\* a tick ends without reaching the swap: its fetch failed or reported
\* unchanged, or the parse failed
TickGivesUp(t) ==
  /\ tasks[t].pc \in {"lock", "send", "body"}
  /\ tasks'[t].pc = "sleep"

C4_LoadFailed ==
  LoadFailed =>
    /\ store = Ret.arg.before.store
    /\ last_update = Ret.arg.before.last_update

C4_TickFetching ==
  \A t \in TaskIds :
    TickFetching(t) => tasks[t].before = Snapshot

C4_TickFailed ==
  \A t \in TaskIds : TickGivesUp(t) => UNCHANGED <<store, last_update>>

\* C4: when load returns an error (fetch and cache fallback both failed, or
\* the parse failed) the Store and last_update are those the call found when
\* it took the fetcher lock; while a tick fetches they stay as the tick
\* found them, and the step on which a tick gives up (fetch failed, parse
\* failed) changes neither.
C4_FailedRefreshKeepsStore ==
  [](C4_LoadFailed /\ C4_TickFetching) /\ [][C4_TickFailed]_vars

\* a load fails on its parse with a Store installed and stamped earlier
C4_Witness ==
  /\ LoadFailed
  /\ Ret.val = "DatabaseParse"
  /\ store.gen >= 1
  /\ IsSome(last_update)

\* C6: load parses the fetched body when fetch returned one; otherwise
\* (unchanged, or any fetch error) it parses the cache file: with a readable
\* cache it returns Ok and has installed the Store built from the cached
\* body (or fails on that body's parse); with no cache file it fails with
\* DatabaseNotLoaded, whatever the fetch error was.
C6_BodyOrCache ==
  LoadReturned =>
    LET fetched == Ret.arg.fetched
        parsed(id) == DatabaseParse(BodyBytes(id))
    IN /\ Ret.ok =>
            /\ store.records = Unwrap(Ret.arg.built).records
            /\ store.src = Unwrap(Ret.arg.built).src
       /\ fetched.tag = "Some" =>
            IF parsed(fetched.val).ok
            THEN Ret.ok /\ Ret.arg.built = NewStore(fetched.val)
            ELSE Outcome(Ret) = RustErr("DatabaseParse")
       /\ (fetched.tag # "Some" /\ IsSome(disk.cache)) =>
            IF Ret.ok
            THEN /\ parsed(Unwrap(disk.cache)).ok
                 /\ Ret.arg.built = NewStore(Unwrap(disk.cache))
            ELSE \/ Outcome(Ret) = RustErr("Io")
                 \/ /\ Outcome(Ret) = RustErr("DatabaseParse")
                    /\ ~parsed(Unwrap(disk.cache)).ok
       /\ (fetched.tag # "Some" /\ ~IsSome(disk.cache)) =>
            Outcome(Ret) = RustErr("DatabaseNotLoaded")

\* the origin fails, the cache is primed: load returns Ok on the cached body
C6_Witness ==
  /\ LoadOk
  /\ Ret.arg.fetched.tag = "Err"
  /\ disk.cache = Some("D1")
  /\ store.src = "D1"
  /\ store.gen = 1

\* load or force_update returns after the origin answered 304 to an engine
\* whose Store and cache an earlier load had filled
LoadOn304 ==
  /\ LoadReturned
  /\ Ret.arg.fetched.tag = "None"

Primed ==
  /\ Ret.arg.before.store.gen >= 1
  /\ IsSome(Ret.arg.before.disk.cache)

\* C7 as stated, for the refresh triggered through load or force_update: it
\* leaves the Store, last_update and the cache file as they were.
C7_Original ==
  (LoadOn304 /\ Primed) =>
    /\ store = Ret.arg.before.store
    /\ last_update = Ret.arg.before.last_update
    /\ disk = Ret.arg.before.disk

C7_LoadOn304 ==
  LoadOn304 =>
    /\ disk = Ret.arg.before.disk
    /\ IF Ret.ok
       THEN /\ store.gen = Ret.arg.before.store.gen + 1
            /\ store.records = Unwrap(NewStore(Unwrap(disk.cache))).records
            /\ IsSome(last_update)
            /\ last_update # Ret.arg.before.last_update
       ELSE /\ store = Ret.arg.before.store
            /\ last_update = Ret.arg.before.last_update

\* the step on which a tick's send() returns anything but a body to read (a
\* 304 or a failure): the tick is over
C7_TickOn304 ==
  \A t \in TaskIds :
    (tasks[t].pc = "send" /\ tasks'[t].pc \notin {"send", "body", "dead"}) =>
      /\ tasks'[t].pc = "sleep"
      /\ UNCHANGED <<store, last_update, disk>>

\* C7 (amended): on 304 no refresh rewrites the cache file or metadata; a
\* tick also leaves the Store and last_update as they are; load and
\* force_update that return Ok have replaced the Store by one parsed from
\* the cached body and set last_update anew, and those that fail have
\* changed neither.
C7_NotModified == []C7_LoadOn304 /\ [][C7_TickOn304]_vars

\* force_update returns Ok after a 304 with a Store that replaced a loaded one
C7_Witness ==
  /\ LoadOn304 /\ Primed
  /\ Ret.api = "force_update" /\ Ret.ok
  /\ store.gen = Ret.arg.before.store.gen + 1
  /\ store.records = Ret.arg.before.store.records

C9_Rejected ==
  \A c \in Callers :
    /\ (StartReturns(c) /\ Unwrap(returned').arg <= 0 /\ ~SchedulerRunning) =>
         /\ Outcome(Unwrap(returned')) = IntervalError
         /\ UNCHANGED <<tasks, updater_handle>>
    /\ control'[c].pc \in {"spawn", "store"} => control'[c].arg > 0
    /\ (StopReturns(c) /\ ~SchedulerRunning) =>
         Outcome(Unwrap(returned')) = NotRunning

\* C9: start_auto_update that finds the scheduler IDLE and is given an
\* interval of zero or less returns the interval error on that step, with
\* the tasks and the handle slot unchanged; no call with such an interval
\* ever reaches the spawn; stop_auto_update in IDLE reports not running.
C9_NonPositiveInterval == [][C9_Rejected]_vars

\* start_auto_update(0) has returned its error and nothing was spawned
C9_Witness ==
  /\ IsSome(returned)
  /\ Ret.api = "start_auto_update"
  /\ Ret.arg = 0
  /\ Outcome(Ret) = IntervalError
  /\ ~SchedulerRunning
  /\ \A t \in TaskIds : tasks[t].pc = "unborn"

StopOk ==
  /\ IsSome(returned)
  /\ Ret.api = "stop_auto_update"
  /\ Ret.ok

Cancelled(t) == tasks[t].pc = "dead"

C10_Stopped ==
  /\ StopOk => LET t == Unwrap(Ret.arg)
               IN tasks[t].aborted \/ Cancelled(t)
  /\ \A t \in TaskIds :
       Cancelled(t) =>
         /\ fetcher_lock # Some(Task(t))
         /\ store_lock.writer # Some(Task(t))
         /\ last_update_lock.writer # Some(Task(t))

C10_AfterAbort ==
  \A t \in TaskIds :
    /\ tasks[t].aborted => tasks'[t].aborted \/ Cancelled(t)'
    \* no new tick, and a fetch in flight is not resumed
    /\ (tasks[t].aborted /\ tasks[t].pc \in {"sleep", "send"}) =>
         tasks'[t] \in {tasks[t], TaskAt("dead")}
    \* being dropped changes nothing but the task and its fetcher guard
    /\ (~Cancelled(t) /\ Cancelled(t)') =>
         UNCHANGED <<store, last_update, disk, fetcher, store_lock,
                     last_update_lock>>
    \* a dropped task takes no further step
    /\ Cancelled(t) => tasks'[t] = tasks[t]

\* C10: when stop_auto_update returns Ok the task it took from the slot is
\* marked aborted (or already dropped) and stays so; an aborted task that
\* sleeps starts no tick and one that waits for the origin is not resumed:
\* its only step is to be dropped, which changes neither Store, last_update,
\* cache nor tokens; a dropped task holds no lock and never moves again.
C10_StopCancels == []C10_Stopped /\ [][C10_AfterAbort]_vars

\* stop_auto_update has returned while the task's request is in flight
C10_Witness ==
  /\ StopOk
  /\ LET t == Unwrap(Ret.arg)
     IN /\ tasks[t].aborted
        /\ tasks[t].pc = "send"
        /\ fetcher_lock = Some(Task(t))

(***************************************************************************)
(* The refresh loop of the background task.                                 *)
(***************************************************************************)
Aborted(t) == tasks[t].aborted

TickEnded(t) == IsSome(returned) /\ Ret.who = Task(t) /\ Ret.api = "tick"

\* the tick of task t has just ended without a swap
GaveUp(t) == TickEnded(t) /\ ~Ret.ok

C11_LoopStep ==
  \A t \in TaskIds :
    \* a tick that gives up releases the fetcher and sleeps again
    /\ TickGivesUp(t) =>
         /\ tasks'[t] = [TaskAt("sleep") EXCEPT !.aborted = Aborted(t)]
         /\ fetcher_lock' = None
         /\ GaveUp(t)'
    \* a tick that went through sleeps again too
    /\ tasks[t].pc = "stamp" => tasks'[t].pc \in {"stamp", "sleep"}
    \* the loop ends only in a task that stop_auto_update aborted
    /\ (~Cancelled(t) /\ Cancelled(t)') => Aborted(t)
    /\ (~Aborted(t) /\ Aborted(t)') =>
         /\ \E c \in Callers : StopReturns(c)
         /\ updater_handle = Some(t)

C11_NextTick ==
  \A t \in TaskIds :
    (GaveUp(t) /\ ~Aborted(t)) ~> (tasks[t].pc = "lock" \/ Aborted(t))

\* C11: a tick whose fetch fails, whose fetch reports unchanged or whose
\* parse fails puts the task back to its sleep with the fetcher released;
\* unless it is aborted, the task then wakes for a further tick; a task ends
\* only after stop_auto_update, holding its handle, aborted it.
C11_LoopNeverEnds == [][C11_LoopStep]_vars /\ C11_NextTick

\* the origin answered 304 to a tick and the task sleeps again, not aborted
C11_Witness ==
  \E t \in TaskIds :
    /\ GaveUp(t) /\ Ret.val = "Database is up to date"
    /\ tasks[t].pc = "sleep" /\ ~Aborted(t)
    /\ fetcher_lock = None
    /\ updater_handle = Some(t)

(***************************************************************************)
(* Refresh cycles and the locks they hold.                                  *)
(***************************************************************************)
CyclePcs == {"send", "body", "swap_acq", "swap", "stamp_acq", "stamp"}

\* who is between fetcher.lock() and the end of its cycle
Refreshing ==
  {w \in {Loader} : loader.pc \in CyclePcs}
    \cup {Task(t) : t \in {u \in TaskIds : tasks[u].pc \in CyclePcs}}

C12_OneCycle ==
  /\ Cardinality(Refreshing) <= 1
  /\ \A w \in Refreshing : fetcher_lock = Some(w)
  /\ IsSome(fetcher_lock) => Unwrap(fetcher_lock) \in Refreshing
  /\ IsSome(store_lock.writer) => store_lock.writer = fetcher_lock
  /\ IsSome(last_update_lock.writer) => last_update_lock.writer = fetcher_lock

C12_CycleStep ==
  /\ (store' # store \/ last_update' # last_update \/ disk' # disk
        \/ fetcher' # fetcher) =>
       /\ IsSome(fetcher_lock)
       /\ fetcher_lock' \in {fetcher_lock, None}
  \* the fetcher lock passes from one cycle to the next only through free
  /\ (IsSome(fetcher_lock) /\ IsSome(fetcher_lock')) =>
       fetcher_lock' = fetcher_lock

\* C12: at most one refresh, a tick or a load / force_update, is between
\* taking the fetcher lock and the end of its cycle, and it is the holder of
\* that lock; only the holder writes the Store or last_update, and the
\* tokens, the cache, the Store and last_update change only on steps of the
\* holder, so the steps of two refreshes never interleave.
C12_OneRefreshAtATime == []C12_OneCycle /\ [][C12_CycleStep]_vars

\* load waits for the fetcher lock while a tick is about to swap, and a
\* second task has already woken for its own tick
C12_Witness ==
  /\ loader.pc = "lock"
  /\ \E t, u \in TaskIds :
       /\ tasks[t].pc = "swap" /\ fetcher_lock = Some(Task(t))
       /\ tasks[u].pc = "lock"

(***************************************************************************)
(* force_update's boolean.                                                  *)
(***************************************************************************)
ForceUpdateOk == LoadReturned /\ Ret.api = "force_update" /\ Ret.ok

\* C13: force_update that returns Ok answers true when the refresh installed
\* a Store built from a body the origin delivered, and false when the origin
\* reported the database unchanged.
C13_TruthfulBoolean ==
  ForceUpdateOk =>
    /\ Ret.arg.fetched.tag = "Some" => Ret.val = "true"
    /\ Ret.arg.fetched.tag = "None" => Ret.val = "false"

(***************************************************************************)
(* The engine before its first swap.                                        *)
(***************************************************************************)
NeverSwapped == store.gen = 0

\* the call that has returned read the Store of the fresh engine
ReadFresh == IsSome(Ret.arg.view) /\ Unwrap(Ret.arg.view).gen = 0

AllPresent(info) ==
  /\ IsSome(info.first_ip) /\ IsSome(info.last_ip)
  /\ IsSome(info.as_number)
  /\ IsSome(info.as_country_code) /\ IsSome(info.as_description)

AllAbsent(info) ==
  /\ info.first_ip = None /\ info.last_ip = None
  /\ info.as_number = None
  /\ info.as_country_code = None /\ info.as_description = None

HoldsStoreWrite(w) == store_lock.writer = Some(w)

C16_Holder ==
  /\ HoldsStoreWrite(Loader) =>
       /\ loader.pc = "swap"
       /\ IsSome(loader.new_store)
  /\ \A t \in TaskIds :
       HoldsStoreWrite(Task(t)) =>
         /\ tasks[t].pc = "swap"
         /\ IsSome(tasks[t].new_store)
  /\ IsSome(store_lock.writer) =>
       store_lock.writer \in {Some(Loader)} \cup {Some(Task(t)) : t \in TaskIds}

C16_Release ==
  \* the lock is taken by a refresh that has its new Store built
  /\ (store_lock.writer = None /\ IsSome(store_lock'.writer)) =>
       /\ UNCHANGED <<store, disk, fetcher>>
       /\ \/ loader.pc = "swap_acq" /\ loader'.pc = "swap"
          \/ \E t \in TaskIds :
               tasks[t].pc = "swap_acq" /\ tasks'[t].pc = "swap"
  \* the holder's one step is the replacement, which releases the lock
  /\ (\/ HoldsStoreWrite(Loader) /\ loader' # loader
      \/ \E t \in TaskIds :
           HoldsStoreWrite(Task(t)) /\ tasks'[t].pc # tasks[t].pc) =>
       /\ store_lock'.writer = None
       /\ store'.gen = store.gen + 1
       /\ UNCHANGED <<disk, fetcher>>
  \* and nothing else touches what the holder is replacing
  /\ (IsSome(store_lock.writer) /\ store_lock'.writer = store_lock.writer) =>
       UNCHANGED <<store, disk, fetcher>>

\* C16: whoever holds the Store write lock is a load or a tick at its swap,
\* with the new Store already fetched, parsed and built; it took the lock on
\* a step of its own that did nothing else, and its next step replaces the
\* Store and releases the lock: no fetch, cache read or parse happens while
\* the write lock is held.
C16_WriteLockOnlyForSwap == []C16_Holder /\ [][C16_Release]_vars

\* a load that downloaded a body holds the write lock for its swap while a
\* task waits for the fetcher
C16_Witness ==
  /\ HoldsStoreWrite(Loader)
  /\ IsHttpUrl(url)
  /\ loader.fetched = Some(FetchSome("D2"))
  /\ \E t \in TaskIds : tasks[t].pc = "lock"

(***************************************************************************)
(* A tick cancelled by stop_auto_update.                                    *)
(***************************************************************************)
\* the task is suspended: it sleeps, or waits for a lock that is held
Suspended(t) ==
  \/ tasks[t].pc = "sleep"
  \/ tasks[t].pc = "lock" /\ ~CanLock(fetcher_lock)
  \/ tasks[t].pc = "swap_acq" /\ ~CanWrite(store_lock)
  \/ tasks[t].pc = "stamp_acq" /\ ~CanWrite(last_update_lock)

\* the step on which an aborted, suspended task is dropped
DroppedSuspended(t) == Aborted(t) /\ Suspended(t) /\ Cancelled(t)'

C17_Step ==
  \A t \in TaskIds :
    (DroppedSuspended(t) /\ IsSome(tasks[t].before)) =>
      LET found == Unwrap(tasks[t].before)
      IN \/ store' = found.store /\ last_update' = found.last_update
         \/ store'.gen > found.store.gen /\ last_update' # found.last_update

\* C17: when a tick is dropped where it is suspended, after stop_auto_update
\* aborted it, either the Store and last_update are both as the tick found
\* them, or the tick's Store is installed and last_update has been set anew.
C17_AllOrNothing == [][C17_Step]_vars

(***************************************************************************)
(* The tasks of the scheduler and the handle slot.                          *)
(***************************************************************************)
\* spawned, neither aborted nor dropped
Alive(t) == tasks[t].pc \notin {"unborn", "dead"} /\ ~Aborted(t)

\* the handle of t is in the slot, or in a start call about to store it
Held(t) ==
  \/ updater_handle = Some(t)
  \/ \E c \in Callers : control[c].pc = "store" /\ control[c].handle = Some(t)

\* C18: however start_auto_update and stop_auto_update calls interleave, at
\* most one task is alive, and a task that is alive has its handle in the
\* slot (or in the start call that is about to put it there), where
\* stop_auto_update finds it.
C18_OneTaskInSlot ==
  /\ Cardinality({t \in TaskIds : Alive(t)}) <= 1
  /\ \A t \in TaskIds : Alive(t) => Held(t)

(***************************************************************************)
(* The revalidation tokens and the cache directory.                         *)
(***************************************************************************)
NoFetchInProgress == fetcher_lock = None

\* C19: when no fetch is in progress the fetcher's etag and last_modified
\* are those of metadata.json, which is written together with the cache
\* file: a fetch that failed or was cancelled has left them as they were;
\* and a load that returns Ok on a 304 has installed a cached body that
\* carries the etag the fetcher holds.
C19_TokensMatchCache ==
  /\ NoFetchInProgress => fetcher = LoadMetadata(disk.metadata)
  /\ (LoadOn304 /\ Ret.ok /\ IsSome(fetcher.etag)) =>
       HeaderEtag(store.src) = fetcher.etag

(***************************************************************************)
(* fetch() and the cache directory.  The result of a fetch shows where the  *)
(* refresh goes next: to the swap, to load's return, to the tick's log.     *)
(***************************************************************************)
FetchPcs == {"lock", "send", "body"}

\* the result of the fetch that load's step has just finished, if any
LoadFetchEnd ==
  IF loader.pc \in FetchPcs /\ loader'.pc = "swap_acq" THEN loader'.fetched
  ELSE IF loader.pc \in FetchPcs /\ loader'.pc = "idle"
  THEN Some(Unwrap(returned').arg.fetched)
  ELSE None

\* the same for the tick of task t: the tag of the result
TickFetchEnd(t) ==
  IF tasks[t].pc \in FetchPcs /\ tasks'[t].pc = "swap_acq" THEN Some("Some")
  ELSE IF tasks[t].pc \in FetchPcs /\ tasks'[t].pc = "sleep"
  THEN LET line == Unwrap(returned').val
       IN Some(CASE line = "Failed to parse database" -> "Some"
                 [] line = "Database is up to date" -> "None"
                 [] OTHER -> "Err")
  ELSE None

\* a step on which fetch_remote returns Ok(Some(body)), and that body
RemoteBodyReturned(id) ==
  \/ /\ loader.pc = "body" /\ loader.body = id
     /\ IsSome(LoadFetchEnd) /\ Unwrap(LoadFetchEnd).tag = "Some"
  \/ \E t \in TaskIds :
       /\ tasks[t].pc = "body" /\ tasks[t].body = id
       /\ TickFetchEnd(t) = Some("Some")

\* a step on which fetch returns with the given tag from the given place
FetchReturned(tag, pcs) ==
  \/ /\ loader.pc \in pcs
     /\ IsSome(LoadFetchEnd) /\ Unwrap(LoadFetchEnd).tag = tag
  \/ \E t \in TaskIds : tasks[t].pc \in pcs /\ TickFetchEnd(t) = Some(tag)

\* who is reading a response body, and which
BodiesInFlight ==
  {b \in OriginBodies :
     \/ loader.pc = "body" /\ loader.body = b
     \/ \E t \in TaskIds : tasks[t].pc = "body" /\ tasks[t].body = b}

C20_Step ==
  \* a remote fetch that returns a body has written it and the tokens
  /\ \A id \in OriginBodies :
       RemoteBodyReturned(id) =>
         disk' = [cache |-> Some(id), metadata |-> Some(fetcher)]
  \* a body that fetch returns is the one the origin or the file delivered
  /\ (IsHttpUrl(url) /\ loader.pc \in FetchPcs /\ loader'.pc = "swap_acq"
        /\ Unwrap(loader'.fetched).tag = "Some") =>
       /\ loader.pc = "body"
       /\ Unwrap(loader'.fetched).val = loader.body
  /\ (IsHttpUrl(url) /\ FetchReturned("Some", FetchPcs)) =>
       FetchReturned("Some", {"body"})
  \* unchanged, a failure status, a transport error, an unsupported scheme
  \* and a file:// read write nothing
  /\ (FetchReturned("None", FetchPcs) \/ FetchReturned("Err", {"lock", "send"})
        \/ ~IsHttpUrl(url)) =>
       UNCHANGED disk
  /\ FetchReturned("None", FetchPcs) => FetchReturned("None", {"send"})
  \* a fetch that fails after the headers leaves metadata.json alone; the
  \* cache file is as it was, or holds the body whose metadata write failed
  /\ FetchReturned("Err", {"body"}) =>
       /\ disk'.metadata = disk.metadata
       /\ \/ disk'.cache = disk.cache
          \/ \E b \in BodiesInFlight : disk'.cache = Some(b)
  \* nothing else writes the cache directory
  /\ disk' # disk =>
       FetchReturned("Some", {"body"}) \/ FetchReturned("Err", {"body"})

Parsed == IsSome(database) /\ Unwrap(database).ok

\* C21: every record of a Store built from any snapshot has first_ip <=
\* last_ip in the address order, with both ends of the same address family.
C21_RecordsAreIntervals ==
  Parsed =>
    \A i \in 1..Len(AsnStoreNew(ProbeTable)) :
      LET R == AsnStoreNew(ProbeTable)[i]
      IN /\ Family(R.first_ip) = Family(R.last_ip)
         /\ IpLe(R.first_ip, R.last_ip)

\* a well-formed line: at least three fields, two addresses and a u32
WellFormedLine(parts) ==
  /\ Len(parts) >= 3
  /\ IsSome(ParseIpAddr(parts[1]))
  /\ IsSome(ParseIpAddr(parts[2]))
  /\ IsSome(ParseU32(parts[3]))

WellFormedLines(lines) == {i \in 1..Len(lines) : WellFormedLine(lines[i])}

\* the five fields a well-formed line stands for
LineFields(parts) ==
  <<Unwrap(ParseIpAddr(parts[1])), Unwrap(ParseIpAddr(parts[2])),
    Unwrap(ParseU32(parts[3])),
    IF Len(parts) >= 4 THEN parts[4] ELSE "",
    IF Len(parts) >= 5 THEN parts[5] ELSE "">>

RecordFields(R) ==
  <<R.first_ip, R.last_ip, R.number, ArcStr(R.country), ArcStr(R.description)>>

\* the records, and the well-formed lines, that carry the fields x
RecordsWith(records, x) ==
  {k \in 1..Len(records) : RecordFields(records[k]) = x}

LinesWith(lines, x) == {i \in WellFormedLines(lines) : LineFields(lines[i]) = x}

\* C22: Database::parse of decompressible input succeeds whatever the lines
\* are and returns one record per well-formed line, carrying that line's
\* fields with "" for a missing country or description, sorted ascending by
\* first_ip; blank and malformed lines contribute nothing.
C22_OneRecordPerWellFormedLine ==
  (IsSome(database) /\ gzipped_data.gzip) =>
    LET lines == gzipped_data.lines
        wf    == WellFormedLines(lines)
    IN /\ Unwrap(database).ok
       /\ Len(ProbeTable) = Cardinality(wf)
       /\ SortedByFirstIp(ProbeTable)
       /\ \A i \in wf :
            Cardinality(RecordsWith(ProbeTable, LineFields(lines[i])))
              = Cardinality(LinesWith(lines, LineFields(lines[i])))

\* a line without country and description, then a malformed line, then a
\* line with a lower first_ip: two records, the later line's first
C22_Witness ==
  /\ Parsed
  /\ Len(gzipped_data.lines) = 3
  /\ WellFormedLine(gzipped_data.lines[1])
  /\ Len(gzipped_data.lines[1]) = 3
  /\ ~LineIsBlank(gzipped_data.lines[2])
  /\ ~WellFormedLine(gzipped_data.lines[2])
  /\ WellFormedLine(gzipped_data.lines[3])
  /\ Len(ProbeTable) = 2
  /\ RecordFields(ProbeTable[1]) = LineFields(gzipped_data.lines[3])
  /\ RecordFields(ProbeTable[2]) = LineFields(gzipped_data.lines[1])
  /\ ArcStr(ProbeTable[2].country) = ""
  /\ ArcStr(ProbeTable[2].description) = ""
  /\ IpLt(ProbeTable[1].first_ip, ProbeTable[2].first_ip)

(***************************************************************************)
(* The two reader-writer locks of the engine and who holds them.            *)
(***************************************************************************)
Holders == {Loader, Reader} \cup {Task(t) : t \in TaskIds}

Holds(lock, w) == lock.writer = Some(w) \/ w \in lock.readers

HoldsBoth(w) == Holds(store_lock, w) /\ Holds(last_update_lock, w)

\* C23: no load, tick, lookup or stats holds the Store lock and the
\* last_update lock at the same time.
C23_Original == \A w \in Holders : ~HoldsBoth(w)

\* C23 (amended): stats is the one operation that holds both locks: it takes
\* a read guard on the Store, then one on last_update, and drops both when it
\* returns.  load and a tick hold the Store write guard only for the swap and
\* the last_update write guard only for the stamp, never the two together,
\* lookup holds the Store read guard alone, and whoever holds last_update is
\* not waiting for the Store.
C23_OnlyStatsHoldsBoth ==
  /\ \A w \in Holders :
       HoldsBoth(w) =>
         /\ w = Reader
         /\ reader.pc = "stats_stamp"
         /\ Reader \in store_lock.readers
         /\ Reader \in last_update_lock.readers
  /\ reader.pc = "stats_stamp" => HoldsBoth(Reader)
  /\ reader.pc = "stats_store" =>
       Holds(store_lock, Reader) /\ ~Holds(last_update_lock, Reader)
  /\ LookupInFlight =>
       Holds(store_lock, Reader) /\ ~Holds(last_update_lock, Reader)
  /\ Holds(store_lock, Loader) <=> loader.pc = "swap"
  /\ Holds(last_update_lock, Loader) <=> loader.pc = "stamp"
  /\ \A t \in TaskIds :
       /\ Holds(store_lock, Task(t)) <=> tasks[t].pc = "swap"
       /\ Holds(last_update_lock, Task(t)) <=> tasks[t].pc = "stamp"

\* stats holds both read guards while a load that has swapped waits to stamp
C23_Witness ==
  /\ reader.pc = "stats_stamp"
  /\ HoldsBoth(Reader)
  /\ loader.pc = "stamp_acq"
  /\ ~CanWrite(last_update_lock)

(***************************************************************************)
(* The pair stats() returns.  Every stamp stores the next instant, so the   *)
(* value of last_update counts the stamps and gen counts the swaps.         *)
(***************************************************************************)
StatsPair == Ret.val

StampsSeen(stamp) == IF IsSome(stamp) THEN Unwrap(stamp) ELSE 0

\* C24: the pair stats() returns is consistent: the record_count is that of
\* one Store, last_update is not a value from before that Store was
\* installed, and a record_count above zero never comes with an absent
\* last_update.
C24_ConsistentPair ==
  StatsReturned =>
    /\ StatsPair.record_count = Len(Unwrap(Ret.arg.view).records)
    /\ StampsSeen(StatsPair.last_update) >= Unwrap(Ret.arg.view).gen
    /\ StatsPair.record_count > 0 => IsSome(StatsPair.last_update)

(***************************************************************************)
(* Locks and the operations that took them.                                 *)
(***************************************************************************)
\* the locks w holds
HoldsFetcher(w) == fetcher_lock = Some(w)

HoldsAny(w) ==
  HoldsFetcher(w) \/ Holds(store_lock, w) \/ Holds(last_update_lock, w)

\* an operation that is not running: it has returned, was never called, or
\* its task sleeps, waits for the fetcher or was dropped
LoadAtRest == loader.pc \in {"idle", "lock"}
ReaderAtRest == reader.pc = "idle"
TaskAtRest(t) == tasks[t].pc \in {"unborn", "dead", "sleep", "lock"}

C25_NoneRetained ==
  /\ LoadAtRest => ~HoldsAny(Loader)
  /\ ReaderAtRest => ~HoldsAny(Reader)
  /\ \A t \in TaskIds : TaskAtRest(t) => ~HoldsAny(Task(t))
  /\ IsSome(fetcher_lock) => Unwrap(fetcher_lock) \in Holders \ {Reader}
  /\ IsSome(store_lock.writer) => Unwrap(store_lock.writer) \in Holders
  /\ IsSome(last_update_lock.writer) =>
       Unwrap(last_update_lock.writer) \in Holders
  /\ store_lock.readers \subseteq {Reader}
  /\ last_update_lock.readers \subseteq {Reader}

\* the Store has been replaced as often as the model follows it
SwapsExhausted == store.gen >= MaxSwaps

\* C25: no finished or cancelled operation retains a lock (a load that
\* returned, a caller whose lookup or stats returned, a task that sleeps or
\* was dropped hold nothing), and under fair scheduling every load or
\* force_update that waits for the fetcher lock acquires it and returns, and
\* every lookup and stats call returns: no operation is blocked for ever.
C25_NoLockRetained ==
  /\ []C25_NoneRetained
  /\ (loader.pc = "lock") ~> (LoadReturned \/ SwapsExhausted)
  /\ (reader.pc # "idle") ~> (LookupReturned \/ StatsReturned)

\* a load waits for the fetcher lock that an aborted task holds, the task
\* itself waiting for the Store write lock behind a reader
C25_Witness ==
  /\ loader.pc = "lock"
  /\ reader.pc # "idle"
  /\ \E t \in TaskIds :
       /\ HoldsFetcher(Task(t))
       /\ Aborted(t)
       /\ tasks[t].pc = "swap_acq"
       /\ ~CanWrite(store_lock)

(***************************************************************************)
(* Shared strings of one parsed table.  Two Arc<str> are one allocation     *)
(* when they come from the same pool and the same slot of it.               *)
(***************************************************************************)
SameAllocation(a, b) == a[1] = b[1] /\ a[2] = b[2]

\* C26: in the table of one Database::parse call, records with byte-equal
\* country share one allocation and records with byte-equal description
\* share one allocation, an allocation holds one byte string, and a country
\* never shares its allocation with a description, equal bytes or not.
C26_InternedPerPool ==
  Parsed =>
    \A i, j \in 1..Len(ProbeTable) :
      LET A == ProbeTable[i]
          B == ProbeTable[j]
      IN /\ ArcStr(A.country) = ArcStr(B.country)
              <=> SameAllocation(A.country, B.country)
         /\ ArcStr(A.description) = ArcStr(B.description)
              <=> SameAllocation(A.description, B.description)
         /\ ~SameAllocation(A.country, B.description)

\* three records: two share their country, the third has another one, and
\* the bytes of one record's country are those of another's description
C26_Witness ==
  /\ Parsed
  /\ Len(ProbeTable) = 3
  /\ \E i, j, k \in 1..3 :
       /\ i # j
       /\ ArcStr(ProbeTable[i].country) = ArcStr(ProbeTable[j].country)
       /\ SameAllocation(ProbeTable[i].country, ProbeTable[j].country)
       /\ ArcStr(ProbeTable[k].country) # ArcStr(ProbeTable[i].country)
       /\ ~SameAllocation(ProbeTable[k].country, ProbeTable[i].country)
       /\ ArcStr(ProbeTable[k].country) = ArcStr(ProbeTable[i].description)
       /\ ~SameAllocation(ProbeTable[k].country, ProbeTable[i].description)

(***************************************************************************)
(* The table the bytes determine: the well-formed lines ordered by          *)
(* first_ip, lines with the same first_ip in the order of the text.         *)
(***************************************************************************)
LineFirstIp(lines, i) == Unwrap(ParseIpAddr(lines[i][1]))

LineBefore(lines, i, j) ==
  \/ IpLt(LineFirstIp(lines, i), LineFirstIp(lines, j))
  \/ LineFirstIp(lines, i) = LineFirstIp(lines, j) /\ i < j

\* the place of the well-formed line i in that order
LineRank(lines, i) ==
  1 + Cardinality({j \in WellFormedLines(lines) : LineBefore(lines, j, i)})

\* a second Database::parse of the same bytes, and the Store built from it
ParsedAgain == DatabaseParse(gzipped_data)
StoreAgain(parsed) == AsnStoreNew(parsed.records)

\* C27: the table of a parse is determined by the bytes: a second parse of
\* the same bytes gives the same result, which is the well-formed lines in
\* ascending first_ip with lines of equal first_ip in their order in the
\* text, and the Store built from the second parse answers a lookup as the
\* first one did.
C27_ParseDeterministic ==
  LET again == ParsedAgain
      lines == gzipped_data.lines
  IN /\ IsSome(database) => Unwrap(database) = again
     /\ Parsed =>
          /\ Len(ProbeTable) = Cardinality(WellFormedLines(lines))
          /\ \A i \in WellFormedLines(lines) :
               RecordFields(ProbeTable[LineRank(lines, i)])
                 = LineFields(lines[i])
     /\ ProbeAnswered =>
          \E form \in SearchForms :
            Unwrap(probe).result
              = DbLookup(form, StoreAgain(again), Unwrap(probe).ip)

\* two lines with the same first_ip and different last_ip follow each other
\* in the table as in the text, after a later line with a lower first_ip,
\* and a lookup of their first_ip has been answered
C27_Witness ==
  /\ ProbeAnswered
  /\ Len(gzipped_data.lines) = 3
  /\ Len(ProbeTable) = 3
  /\ RecordFields(ProbeTable[1]) = LineFields(gzipped_data.lines[3])
  /\ RecordFields(ProbeTable[2]) = LineFields(gzipped_data.lines[1])
  /\ RecordFields(ProbeTable[3]) = LineFields(gzipped_data.lines[2])
  /\ ProbeTable[2].first_ip = ProbeTable[3].first_ip
  /\ ProbeTable[2].last_ip # ProbeTable[3].last_ip
  /\ IpLt(ProbeTable[1].first_ip, ProbeTable[2].first_ip)
  /\ ProbeIp = ProbeTable[2].first_ip

====
